---------------------------- MODULE Spec2Model ----------------------------
(***************************************************************************)
(* A model of src/app.py: the storefront scrapers (brand name, hero        *)
(* products, catalog paginator, FAQ, important links), competitor          *)
(* discovery and the two route handlers.  Each scraper has a specification *)
(* of its own (SpecLinks, SpecFaq, ...) in which the site's answers are    *)
(* chosen as the scraper asks for them and logged, so that a property can  *)
(* compare the scraper's result with what the site served.                 *)
(***************************************************************************)
EXTENDS Integers, Sequences, FiniteSets, TLC

VARIABLES links, faq, hero, cat, brand, comp, req

vars == <<links, faq, hero, cat, brand, comp, req>>

\* A component that takes no part in the specification being checked.
Idle == [pc |-> "idle"]

\* Python's None.
None == [kind |-> "None"]

\* The canonical root of the storefront under scrape.
Base == "https://shop/"

(***************************************************************************)
(* HTTP and the page fetcher                                               *)
(***************************************************************************)

\* What client.get can do: return a response, or raise httpx.RequestError
\* (connect/read timeout, network, protocol, decoding, too many redirects).
Resp(status, body) == [exc |-> "none", status |-> status, body |-> body]
ReqError == [exc |-> "RequestError", status |-> 0, body |-> None]

\* A function call either returns a value or raises.
Ret(v) == [raised |-> "none", value |-> v]
Raise(e) == [raised |-> e, value |-> None]

\* The lenient HTML parser: any text gives a document; text that is not
\* markup gives a document without elements.
EmptyDoc == [kind |-> "emptydoc"]
Garbage == [kind |-> "garbage"]
BeautifulSoup(body) == IF body = Garbage THEN EmptyDoc ELSE body

\* fetch_html with the handler of httpx.RequestError left out.
fetch_html_nocatch(r) ==
    IF r.exc # "none" THEN Raise(r.exc)
    ELSE IF r.status = 200 THEN Ret(BeautifulSoup(r.body))
    ELSE Ret(None)

fetch_html(r) ==
    IF r.exc # "none"
    THEN IF r.exc = "RequestError" THEN Ret(None) ELSE Raise(r.exc)
    ELSE IF r.status = 200 THEN Ret(BeautifulSoup(r.body))
    ELSE Ret(None)

\* urljoin(base, path) for the absolute paths the scrapers use.
urljoin(base, path) == [base |-> base, path |-> path]

\* The answers a site can give for a plain page.
PageResponses == {ReqError, Resp(404, None), Resp(200, Garbage), Resp(200, [kind |-> "page"])}

\* Independent of fetch_html: the site served the path with status 200.
Retrievable(r) == r.exc = "none" /\ r.status = 200

(***************************************************************************)
(* scrape_important_links                                                  *)
(***************************************************************************)

LinkPairs == <<
    [path |-> "/pages/track",          key |-> "order_tracking"],
    [path |-> "/pages/track-order",    key |-> "order_tracking"],
    [path |-> "/pages/order-tracking", key |-> "order_tracking"],
    [path |-> "/pages/contact",        key |-> "contact_us"],
    [path |-> "/blogs/news",           key |-> "blogs"],
    [path |-> "/blogs",                key |-> "blogs"] >>

LinkKeys == {"order_tracking", "contact_us", "blogs"}

\* One iteration of the loop: if soup: out[key] = urljoin(base, path)
LinkIter(out, pair, soup) ==
    IF soup # None THEN [out EXCEPT ![pair.key] = urljoin(Base, pair.path)] ELSE out

InitLinks ==
    /\ links = [pc |-> "loop", i |-> 1, out |-> [k \in LinkKeys |-> None], log |-> <<>>]
    /\ faq = Idle /\ hero = Idle /\ cat = Idle /\ brand = Idle /\ comp = Idle /\ req = Idle

LinkStep ==
    /\ links.pc = "loop"
    /\ links.i <= Len(LinkPairs)
    /\ \E r \in PageResponses :
         LET f == fetch_html(r) IN
           /\ f.raised = "none"
           /\ links' = [links EXCEPT !.i = @ + 1,
                                     !.out = LinkIter(@, LinkPairs[links.i], f.value),
                                     !.log = Append(@, r)]
    /\ UNCHANGED <<faq, hero, cat, brand, comp, req>>

LinkReturn ==
    /\ links.pc = "loop"
    /\ links.i > Len(LinkPairs)
    /\ links' = [links EXCEPT !.pc = "done"]
    /\ UNCHANGED <<faq, hero, cat, brand, comp, req>>

NextLinks == LinkStep \/ LinkReturn

SpecLinks == InitLinks /\ [][NextLinks]_vars

\* The indexes of the pairs of `key` that the site served, in list order.
LinkHits(key) ==
    {j \in 1..Len(links.log) : LinkPairs[j].key = key /\ Retrievable(links.log[j])}

Min(S) == CHOOSE x \in S : \A y \in S : x <= y
Max(S) == CHOOSE x \in S : \A y \in S : x >= y

\* C1: when scrape_important_links returns, each key holds the URL of the
\* FIRST retrievable path mapped to it (in list order), and a key none of
\* whose paths is retrievable is None.
C1_FirstRetrievableWins ==
    links.pc = "done" =>
        \A k \in LinkKeys :
            links.out[k] = IF LinkHits(k) = {} THEN None
                           ELSE urljoin(Base, LinkPairs[Min(LinkHits(k))].path)

\* What the code does instead: the LAST retrievable path of a key wins.
LinksLastRetrievableWins ==
    links.pc = "done" =>
        \A k \in LinkKeys :
            links.out[k] = IF LinkHits(k) = {} THEN None
                           ELSE urljoin(Base, LinkPairs[Max(LinkHits(k))].path)

(***************************************************************************)
(* scrape_faqs                                                             *)
(***************************************************************************)

FaqPaths == <<"/pages/faq", "/pages/faqs", "/pages/help", "/pages/support">>

\* The longest mainEntity list of a structured-data block of the model.
MaxEntities == 2

\* str.strip() on the texts of the model: a blank text becomes empty.
Strip(s) == IF s = " " THEN "" ELSE s

\* The sequences over S of length at most n.
SeqUpTo(S, n) == UNION {[1..k -> S] : k \in 0..n}

\* An entry of mainEntity: a JSON object with a name and an accepted
\* answer's text, or a JSON value that is no object ("notdict": ent.get
\* raises AttributeError).
FaqEntities ==
    [kind : {"object"}, name : {" ", "Q"}, text : {" ", "A"}]
    \cup {[kind |-> "notdict"]}

Malformed == [kind |-> "malformed"]

\* The text of a <script type="application/ld+json">: text json.loads
\* rejects, or a JSON object with an @type.
LdBlocks ==
    {Malformed}
    \cup [kind : {"json"}, type : {"Organization"}, mainEntity : {<<>>}]
    \cup [kind : {"json"}, type : {"FAQPage"}, mainEntity : SeqUpTo(FaqEntities, MaxEntities)]

\* A <details>: whether it has a <summary>, the summary's text and the rest
\* of its text.
FaqDetails ==
    [hasSummary : {TRUE}, summary : {" ", "Q"}, rest : {"", "A"}]
    \cup [hasSummary : {FALSE}, summary : {""}, rest : {"", "A"}]

\* The FAQ pages a site can serve: no block, one block, or a block after a
\* malformed one; no <details> or one.
FaqDocs ==
    [kind : {"page"},
     ld : {<<>>} \cup {<<b>> : b \in LdBlocks} \cup {<<Malformed, b>> : b \in LdBlocks},
     details : {<<>>} \cup {<<d>> : d \in FaqDetails}]

FaqResponses ==
    {ReqError, Resp(404, None), Resp(200, Garbage)} \cup {Resp(200, d) : d \in FaqDocs}

FAQItem(q, a, url) == [question |-> q, answer |-> a, url |-> url]

\* The loop over data.get("mainEntity"): an entry that raises ends the
\* block (except Exception: pass); the items appended before it stay.
RECURSIVE LdEntities(_, _)
LdEntities(ents, url) ==
    IF ents = <<>> THEN <<>>
    ELSE LET ent == Head(ents) IN
         IF ent.kind = "notdict" THEN <<>>
         ELSE LET q == Strip(ent.name)
                  a == Strip(ent.text)
              IN (IF q # "" /\ a # "" THEN <<FAQItem(q, a, url)>> ELSE <<>>)
                 \o LdEntities(Tail(ents), url)

\* The loop over the JSON-LD scripts of a page.
RECURSIVE LdItems(_, _)
LdItems(blocks, url) ==
    IF blocks = <<>> THEN <<>>
    ELSE LET b == Head(blocks) IN
         (IF b.kind = "malformed" THEN <<>>
          ELSE IF b.type = "FAQPage" THEN LdEntities(b.mainEntity, url)
          ELSE <<>>)
         \o LdItems(Tail(blocks), url)

\* The loop over soup.find_all("details"): the question is the summary's
\* text, the answer the whole text of the <details>, summary included.
RECURSIVE DetailItems(_, _)
DetailItems(dets, url) ==
    IF dets = <<>> THEN <<>>
    ELSE LET det == Head(dets)
             q == IF det.hasSummary THEN Strip(det.summary) ELSE ""
             a == IF q = "" THEN det.rest
                  ELSE IF det.rest = "" THEN q ELSE "Q A"
         IN (IF q # "" /\ a # "" THEN <<FAQItem(q, a, url)>> ELSE <<>>)
            \o DetailItems(Tail(dets), url)

\* The items one retrieved page gives: both strategies, concatenated.
PageFaqs(soup, url) ==
    IF soup = EmptyDoc THEN <<>>
    ELSE LdItems(soup.ld, url) \o DetailItems(soup.details, url)

\* The loop of scrape_faqs with "if faqs: return faqs" left out: every
\* path is fetched and the items are accumulated.
FaqIterUnion(st, soup) ==
    LET url == urljoin(Base, FaqPaths[st.i])
        faqs == IF soup = None THEN <<>> ELSE PageFaqs(soup, url)
    IN [st EXCEPT !.i = @ + 1, !.ret = @ \o faqs]

\* One iteration of the loop of scrape_faqs on the state [i, ret]: ret is
\* the value returned, set when the function returns.
FaqIter(st, soup) ==
    IF soup = None THEN [st EXCEPT !.i = @ + 1]
    ELSE LET faqs == PageFaqs(soup, urljoin(Base, FaqPaths[st.i])) IN
         IF faqs # <<>> THEN [st EXCEPT !.pc = "done", !.ret = faqs]
         ELSE [st EXCEPT !.i = @ + 1]

\* Independent of the extraction: the number of question/answer pairs of a
\* served page whose question and answer are both non-empty once trimmed.
RECURSIVE CountValid(_)
CountValid(s) ==
    IF s = <<>> THEN 0
    ELSE (IF Head(s) THEN 1 ELSE 0) + CountValid(Tail(s))

RECURSIVE EntitiesBeforeFailure(_)
EntitiesBeforeFailure(ents) ==
    IF ents = <<>> THEN <<>>
    ELSE IF Head(ents).kind = "notdict" THEN <<>>
    ELSE <<Head(ents)>> \o EntitiesBeforeFailure(Tail(ents))

RECURSIVE ValidLd(_)
ValidLd(blocks) ==
    IF blocks = <<>> THEN 0
    ELSE (IF Head(blocks).kind = "json" /\ Head(blocks).type = "FAQPage"
          THEN LET es == EntitiesBeforeFailure(Head(blocks).mainEntity) IN
               CountValid([j \in 1..Len(es) |-> es[j].name # " " /\ es[j].text # " "])
          ELSE 0) + ValidLd(Tail(blocks))

ValidPairs(r) ==
    IF ~Retrievable(r) THEN 0
    ELSE IF r.body = Garbage THEN 0
    ELSE ValidLd(r.body.ld)
         + CountValid([j \in 1..Len(r.body.details) |->
                          /\ r.body.details[j].hasSummary
                          /\ r.body.details[j].summary # " "])

\* log: per fetched path, in fetch order, the path's index, the status the
\* site answered with (0: the request failed), the number of valid pairs
\* its page holds and the items extracted from it.
InitFaq ==
    /\ faq = [pc |-> "loop", i |-> 1, ret |-> <<>>, log |-> <<>>]
    /\ links = Idle /\ hero = Idle /\ cat = Idle /\ brand = Idle /\ comp = Idle /\ req = Idle

FaqStep ==
    /\ faq.pc = "loop"
    /\ faq.i <= Len(FaqPaths)
    /\ \E r \in FaqResponses :
         LET f == fetch_html(r)
             url == urljoin(Base, FaqPaths[faq.i])
             entry == [path |-> faq.i, status |-> r.status, valid |-> ValidPairs(r),
                       items |-> IF Retrievable(r) THEN PageFaqs(BeautifulSoup(r.body), url)
                                 ELSE <<>>]
         IN /\ f.raised = "none"
            /\ faq' = [FaqIter(faq, f.value) EXCEPT !.log = Append(faq.log, entry)]
    /\ UNCHANGED <<links, hero, cat, brand, comp, req>>

\* The loop ran out of paths: return [].
FaqReturnEmpty ==
    /\ faq.pc = "loop"
    /\ faq.i > Len(FaqPaths)
    /\ faq' = [faq EXCEPT !.pc = "done", !.ret = <<>>]
    /\ UNCHANGED <<links, hero, cat, brand, comp, req>>

NextFaq == FaqStep \/ FaqReturnEmpty

SpecFaq == InitFaq /\ [][NextFaq]_vars

\* C7: the FAQ paths are fetched in the fixed order 1, 2, 3, 4; a path
\* whose page is absent or holds no valid pair is skipped; the first path
\* whose page holds a valid pair ends the scrape, which returns exactly
\* that page's items (no union with another path's) and fetches no later
\* path; with no such path the result is empty.
C7_FirstYieldingPathOnly ==
    /\ \A j \in 1..Len(faq.log) :
         /\ faq.log[j].path = j
         /\ j < Len(faq.log) => faq.log[j].valid = 0
    /\ faq.pc = "done" =>
         LET n == Len(faq.log) IN
           IF n > 0 /\ faq.log[n].valid > 0
           THEN /\ faq.ret = faq.log[n].items
                /\ Len(faq.ret) = faq.log[n].valid
                /\ \A k \in 1..Len(faq.ret) :
                     faq.ret[k].url = urljoin(Base, FaqPaths[n])
           ELSE n = Len(FaqPaths) /\ faq.ret = <<>>

\* scrape_faqs returned the items of a later path after skipping an absent
\* page and a page without a valid pair.
C7_Witness ==
    /\ faq.pc = "done"
    /\ Len(faq.log) = 3
    /\ Len(faq.ret) = 2
    /\ faq.log[3].valid = 2

(***************************************************************************)
(* scrape_brand_name                                                       *)
(***************************************************************************)

\* Texts are sequences over this alphabet: a space, the separator, a letter.
Chars == {" ", "|", "a"}

\* The longest <title> text and og:site_name content of the model.
MaxTitleLen == 3
MaxOgLen == 2

\* str.strip(): drop the leading and the trailing whitespace.
RECURSIVE LStrip(_)
LStrip(s) == IF s # <<>> /\ Head(s) = " " THEN LStrip(Tail(s)) ELSE s

RECURSIVE RStrip(_)
RStrip(s) ==
    IF s # <<>> /\ s[Len(s)] = " " THEN RStrip(SubSeq(s, 1, Len(s) - 1)) ELSE s

strip(s) == RStrip(LStrip(s))

\* s.split("|")[0]: the text before the first separator.
RECURSIVE FirstSegment(_)
FirstSegment(s) ==
    IF s = <<>> THEN <<>>
    ELSE IF Head(s) = "|" THEN <<>>
    ELSE <<Head(s)>> \o FirstSegment(Tail(s))

Str(s) == [kind |-> "str", s |-> s]

\* The home page as scrape_brand_name reads it: whether it has a <title>
\* and its text; whether it has a <meta property="og:site_name"> and the
\* tag's content ("" when the attribute is missing or empty).
BrandSoups ==
    [kind : {"page"},
     hasTitle : {TRUE}, title : SeqUpTo(Chars, MaxTitleLen),
     hasOg : {TRUE}, og : SeqUpTo(Chars, MaxOgLen)]
    \cup [kind : {"page"}, hasTitle : {FALSE}, title : {<<>>},
          hasOg : {TRUE}, og : SeqUpTo(Chars, MaxOgLen)]
    \cup [kind : {"page"}, hasTitle : {TRUE}, title : SeqUpTo(Chars, MaxTitleLen),
          hasOg : {FALSE}, og : {<<>>}]
    \cup [kind : {"page"}, hasTitle : {FALSE}, title : {<<>>},
          hasOg : {FALSE}, og : {<<>>}]

scrape_brand_name(soup) ==
    IF soup = None \/ soup = EmptyDoc THEN None
    ELSE IF soup.hasTitle /\ soup.title # <<>>
         THEN Str(strip(FirstSegment(strip(soup.title))))
    ELSE IF soup.hasOg /\ soup.og # <<>> THEN Str(strip(soup.og))
    ELSE None

InitBrand ==
    /\ \E soup \in BrandSoups \cup {None} :
         brand = [pc |-> "call", soup |-> soup, result |-> None]
    /\ links = Idle /\ faq = Idle /\ hero = Idle /\ cat = Idle /\ comp = Idle /\ req = Idle

BrandCall ==
    /\ brand.pc = "call"
    /\ brand' = [brand EXCEPT !.pc = "done", !.result = scrape_brand_name(brand.soup)]
    /\ UNCHANGED <<links, faq, hero, cat, comp, req>>

NextBrand == BrandCall

SpecBrand == InitBrand /\ [][NextBrand]_vars

\* The non-empty text a source yields, or <<>>.
TitleText(soup) ==
    IF soup # None /\ soup.hasTitle THEN strip(FirstSegment(strip(soup.title))) ELSE <<>>
OgText(soup) ==
    IF soup # None /\ soup.hasOg THEN strip(soup.og) ELSE <<>>

\* C9: scrape_brand_name returns the title's first segment when that is
\* non-empty, else the og:site_name content when that is non-empty, else
\* None; it never returns an empty string.
C9_NonEmptyOrAbsent ==
    brand.pc = "done" =>
        /\ brand.result # Str(<<>>)
        /\ brand.result = IF TitleText(brand.soup) # <<>> THEN Str(TitleText(brand.soup))
                          ELSE IF OgText(brand.soup) # <<>> THEN Str(OgText(brand.soup))
                          ELSE None

(***************************************************************************)
(* scrape_hero_products                                                    *)
(***************************************************************************)

\* if len(out) >= 8: break
HeroLimit == 8

\* The number of distinct product URLs the home page can link to, and the
\* number of anchors on it.
NumUrls == 9
MaxAnchors == 10

\* An href to product `n`: relative ("/products/n") or absolute
\* ("https://shop/products/n"); product 0 stands for an href that does not
\* contain "/products/".
Hrefs == [product : 0..NumUrls, form : {"rel", "abs"}]

\* absolutize(base, href): both forms of an href give the same URL.
absolutize(base, href) == [base |-> base, path |-> href.product]

\* An anchor's title attribute, its visible text and the alt text of the
\* image it holds ("" when missing).
AnchorTexts ==
    { [title |-> "T", text |-> "",  alt |-> ""],
      [title |-> "",  text |-> "T", alt |-> ""],
      [title |-> "",  text |-> "",  alt |-> "T"],
      [title |-> " ", text |-> "T", alt |-> ""],
      [title |-> " ", text |-> "",  alt |-> "T"],
      [title |-> "",  text |-> "",  alt |-> ""] }

\* title = (a.get("title") or a.get_text(" ", strip=True) or "").strip();
\* if not title: the alt of the contained image, stripped.
HeroTitle(a) ==
    LET t == Strip(IF a.title # "" THEN a.title ELSE a.text)
    IN IF t # "" THEN t ELSE Strip(a.alt)

Product(title, url) == [title |-> title, url |-> url]

\* The loop body with the cap tested on the list before the append, with >
\* for >=.
HeroIterNoCap(st, a) ==
    LET href == absolutize(Base, a.href)
        title == HeroTitle(a)
        added == title # "" /\ href \notin st.seen
        out == IF added THEN Append(st.out, Product(title, href)) ELSE st.out
    IN [st EXCEPT !.out = out,
                  !.seen = IF added THEN @ \cup {href} ELSE @,
                  !.pc = IF Len(st.out) > HeroLimit THEN "done" ELSE @]

\* One iteration of the loop over soup.select('a[href*="/products/"]') on
\* the state [out, seen, pc]: skip a seen URL, append a titled one, stop
\* once out holds HeroLimit products.
HeroIter(st, a) ==
    LET href == absolutize(Base, a.href)
        title == HeroTitle(a)
    IN IF href \in st.seen THEN st
       ELSE LET out == IF title # "" THEN Append(st.out, Product(title, href)) ELSE st.out
            IN [st EXCEPT !.out = out,
                          !.seen = IF title # "" THEN @ \cup {href} ELSE @,
                          !.pc = IF Len(out) >= HeroLimit THEN "done" ELSE @]

\* linked: the number of distinct products the anchors read so far link
\* to; products are numbered in the order the page first links to them.
\* first: the URLs in the order of their first titled anchor.
InitHero ==
    /\ hero = [pc |-> "loop", pos |-> 0, linked |-> 0, seen |-> {}, out |-> <<>>,
               first |-> <<>>]
    /\ links = Idle /\ faq = Idle /\ cat = Idle /\ brand = Idle /\ comp = Idle /\ req = Idle

InSeq(x, s) == \E j \in 1..Len(s) : s[j] = x

\* The selector passes the anchor to the loop body.
HeroAnchor ==
    /\ hero.pc = "loop"
    /\ hero.pos < MaxAnchors
    /\ \E h \in Hrefs, t \in AnchorTexts :
         LET a == [href |-> h, title |-> t.title, text |-> t.text, alt |-> t.alt]
             url == absolutize(Base, h)
         IN /\ h.product >= 1
            /\ h.product <= hero.linked + 1
            /\ hero' = [HeroIter(hero, a) EXCEPT
                          !.pos = @ + 1,
                          !.linked = IF h.product > @ THEN h.product ELSE @,
                          !.first = IF HeroTitle(a) # "" /\ ~InSeq(url, @)
                                    THEN Append(@, url) ELSE @]
    /\ UNCHANGED <<links, faq, cat, brand, comp, req>>

\* An anchor the selector does not match is not seen by the loop.
HeroOtherAnchor ==
    /\ hero.pc = "loop"
    /\ hero.pos < MaxAnchors
    /\ \E h \in Hrefs :
         /\ h.product = 0
         /\ hero' = [hero EXCEPT !.pos = @ + 1]
    /\ UNCHANGED <<links, faq, cat, brand, comp, req>>

\* The page has no more anchors: return out.
HeroReturn ==
    /\ hero.pc = "loop"
    /\ hero' = [hero EXCEPT !.pc = "done"]
    /\ UNCHANGED <<links, faq, cat, brand, comp, req>>

NextHero == HeroAnchor \/ HeroOtherAnchor \/ HeroReturn

SpecHero == InitHero /\ [][NextHero]_vars

\* C8: scrape_hero_products yields at most 8 products, no two with the same
\* absolute URL, in the document order of their first titled anchor.
C8_HeroBounded ==
    /\ Len(hero.out) <= HeroLimit
    /\ \A j, k \in 1..Len(hero.out) : j # k => hero.out[j].url # hero.out[k].url
    /\ Len(hero.out) = Len(hero.first)
    /\ \A j \in 1..Len(hero.out) :
         hero.out[j].url = hero.first[j] /\ hero.out[j].title # ""

\* The page repeated a URL (once untitled before its titled anchor, once in
\* the other href form) and the scrape stopped at the cap.
C8_Witness ==
    /\ hero.pc = "done"
    /\ Len(hero.out) = HeroLimit
    /\ hero.pos > HeroLimit + 1
    /\ hero.out[1].url.path = 2

(***************************************************************************)
(* scrape_catalog                                                          *)
(***************************************************************************)

\* The number of feed pages the model requests and the longest item list
\* of a page.
MaxPages == 3
MaxPageItems == 2

\* The first variant's price of a feed item: missing (no variant, no price,
\* null or ""), a JSON string, or a JSON array/object.
PriceValues ==
    { [kind |-> "missing", text |-> ""],
      [kind |-> "string",  text |-> "19.99"],
      [kind |-> "string",  text |-> "not-a-number"],
      [kind |-> "object",  text |-> ""] }

FeedItems == [title : {"a"}, price : PriceValues]

\* Python's float(x): the number a decimal string denotes, ValueError for
\* another string, TypeError for a value that is no string and no number.
float(p) ==
    IF p.kind = "string"
    THEN IF p.text = "19.99" THEN Ret([kind |-> "float", text |-> p.text])
         ELSE Raise("ValueError")
    ELSE Raise("TypeError")

\* The price of one item: try: float(v0["price"]) except ValueError: pass
ItemPrice(it) ==
    IF it.price.kind = "missing" THEN Ret(None)
    ELSE LET f == float(it.price) IN
         IF f.raised = "ValueError" THEN Ret(None) ELSE f

\* The loop over the items of one page: the products appended, and the
\* exception that ended the loop ("none": it ran to the end).
RECURSIVE PageItems(_)
PageItems(items) ==
    IF items = <<>> THEN [products |-> <<>>, raised |-> "none"]
    ELSE LET price == ItemPrice(Head(items)) IN
         IF price.raised # "none" THEN [products |-> <<>>, raised |-> price.raised]
         ELSE LET rest == PageItems(Tail(items)) IN
              [products |-> <<[title |-> Head(items).title, price |-> price.value]>>
                            \o rest.products,
               raised |-> rest.raised]

\* The body of a feed response: text that is not JSON, a JSON array, or a
\* JSON object with its "products" list (empty when the key is missing).
FeedBodies ==
    { [kind |-> "notjson", products |-> <<>>],
      [kind |-> "array",   products |-> <<>>] }
    \cup [kind : {"object"}, products : SeqUpTo(FeedItems, MaxPageItems)]

FeedResponses == {ReqError, Resp(404, None)} \cup {Resp(200, b) : b \in FeedBodies}

\* One pass of the while loop on the state [page, products, pc]; every
\* break and the except clause lead to "return products".
CatalogIter(st, r) ==
    IF r.exc # "none" THEN [st EXCEPT !.pc = "done"]
    ELSE IF r.status # 200 THEN [st EXCEPT !.pc = "done"]
    ELSE IF r.body.kind # "object" THEN [st EXCEPT !.pc = "done"]
    ELSE IF r.body.products = <<>> THEN [st EXCEPT !.pc = "done"]
    ELSE LET res == PageItems(r.body.products) IN
         IF res.raised # "none"
         THEN [st EXCEPT !.products = @ \o res.products, !.pc = "done"]
         ELSE [st EXCEPT !.products = @ \o res.products, !.page = @ + 1]

\* log: the responses of the pages requested, page 1 first.
InitCatalog ==
    /\ cat = [pc |-> "loop", page |-> 1, products |-> <<>>, log |-> <<>>]
    /\ links = Idle /\ faq = Idle /\ hero = Idle /\ brand = Idle /\ comp = Idle /\ req = Idle

CatalogPage ==
    /\ cat.pc = "loop"
    /\ cat.page <= MaxPages
    /\ \E r \in FeedResponses :
         cat' = [CatalogIter(cat, r) EXCEPT !.log = Append(cat.log, r)]
    /\ UNCHANGED <<links, faq, hero, brand, comp, req>>

NextCatalog == CatalogPage

SpecCatalog == InitCatalog /\ [][NextCatalog]_vars

\* Independent of the paginator: the item list a served page holds, <<>>
\* when the page is not retrievable as JSON.
ServedItems(r) ==
    IF Retrievable(r) /\ r.body.kind = "object" THEN r.body.products ELSE <<>>

RECURSIVE Flatten(_)
Flatten(ss) == IF ss = <<>> THEN <<>> ELSE Head(ss) \o Flatten(Tail(ss))

\* The price the spec gives an item: the number its price text denotes,
\* None for any other price.
ExpectedPrice(it) ==
    IF it.price.kind = "string" /\ it.price.text = "19.99"
    THEN [kind |-> "float", text |-> "19.99"] ELSE None

\* C3: pages are requested in order; the pages before the last one
\* requested are retrievable and non-empty, the last one is empty or not
\* retrievable (pagination ends right after it), and the result holds
\* exactly the items of the pages before it, in page order.
C3_PaginationToFirstEmptyPage ==
    cat.pc = "done" =>
        LET k == Len(cat.log)
            items == Flatten([j \in 1..(k - 1) |-> ServedItems(cat.log[j])])
        IN /\ cat.page = k
           /\ \A j \in 1..(k - 1) : ServedItems(cat.log[j]) # <<>>
           /\ ServedItems(cat.log[k]) = <<>>
           /\ Len(cat.products) = Len(items)
           /\ \A n \in 1..Len(items) : cat.products[n].title = items[n].title

\* C4: every item of every served page is emitted, whatever its price: its
\* product carries the parsed price, or None when the price does not parse,
\* and the page after a non-empty page is requested.
C4_PriceNeverAbortsItem ==
    LET items == Flatten([j \in 1..Len(cat.log) |-> ServedItems(cat.log[j])])
    IN /\ Len(cat.products) = Len(items)
       /\ \A n \in 1..Len(items) :
            /\ cat.products[n].title = items[n].title
            /\ cat.products[n].price = ExpectedPrice(items[n])
       /\ cat.pc = "done" => ServedItems(cat.log[Len(cat.log)]) = <<>>

\* What the code guarantees: a price that is a string never aborts the item.
StringPrices ==
    \A j \in 1..Len(cat.log) : \A n \in 1..Len(ServedItems(cat.log[j])) :
        ServedItems(cat.log[j])[n].price.kind # "object"

CatalogHoldsForStringPrices ==
    StringPrices => C3_PaginationToFirstEmptyPage /\ C4_PriceNeverAbortsItem

(***************************************************************************)
(* looks_like_shopify and find_competitor_candidates                       *)
(***************************************************************************)

\* limit: int = Query(3, ge=1, ...): the smallest limit a request can ask.
MinLimit == 1

\* The largest limit of the model, the number of foreign hosts the search
\* results can name and the number of anchors of one results page.
MaxLimit == 2
MaxForeignHosts == 10
MaxResultAnchors == 5

\* Hosts are numbers: SelfHost is the queried brand's own netloc, NoHost an
\* empty netloc ("http:///x"), 1, 2, ... foreign hosts, numbered in the
\* order the search results first name them.
SelfHost == 0
NoHost == -1

\* An href of a results page: relative (it does not start with "http"),
\* an absolute URL with a host and a path, or an absolute URL urlparse
\* rejects ("bad": ValueError).
ResultHrefs ==
    [kind : {"relative"}, host : {NoHost}, path : {"/l"}]
    \cup [kind : {"bad"}, host : {NoHost}, path : {"/"}]
    \cup [kind : {"absolute"}, host : NoHost..MaxForeignHosts, path : {"/", "/p"}]

\* normalize_root(url): scheme and netloc, the path replaced by "/".
normalize_root(url) == [host |-> url.host, path |-> "/"]

\* urlparse(url).netloc
netloc(url) == url.host

\* The body of the probe's response: text that is not JSON, a JSON array,
\* or a JSON object with or without a "products" key.
ProbeBodies ==
    { [kind |-> "notjson", hasProducts |-> FALSE],
      [kind |-> "array",   hasProducts |-> FALSE],
      [kind |-> "object",  hasProducts |-> FALSE],
      [kind |-> "object",  hasProducts |-> TRUE] }

ProbeResponses == {ReqError, Resp(404, None)} \cup {Resp(200, b) : b \in ProbeBodies}

\* fetch_json_ok: r.json() on a 200; any exception gives None.
fetch_json_ok(r) ==
    IF r.exc # "none" THEN Ret(None)
    ELSE IF r.status = 200
         THEN IF r.body.kind = "notjson" THEN Ret(None) ELSE Ret(r.body)
    ELSE Ret(None)

\* looks_like_shopify on the probe's response.
looks_like_shopify(r) ==
    LET data == fetch_json_ok(r).value IN
    IF data = None THEN FALSE
    ELSE data.kind = "object" /\ data.hasProducts

\* The number of queries: three with a brand name, two without.
NumQueries(brandKnown) == IF brandKnown THEN 3 ELSE 2

\* The anchor loop's body with the test of the host against self_host
\* left out.
HarvestIterKeepSelf(st, href) ==
    IF href.kind = "relative" THEN st
    ELSE IF href.kind = "bad" THEN [st EXCEPT !.inPage = FALSE, !.q = @ + 1]
    ELSE LET host == netloc(href)
             root_cand == normalize_root(href)
             h == netloc(root_cand)
         IN IF host = NoHost THEN st
            ELSE IF h \in st.seen_hosts THEN st
            ELSE LET cands == Append(st.candidates, root_cand) IN
                 IF Len(cands) >= st.limit * 4
                 THEN [st EXCEPT !.candidates = cands, !.seen_hosts = @ \cup {h},
                                 !.inPage = FALSE, !.q = @ + 1]
                 ELSE [st EXCEPT !.candidates = cands, !.seen_hosts = @ \cup {h}]

\* The anchor loop's body with the break on len(candidates) >= limit * 4
\* left out.
HarvestIterNoBreak(st, href) ==
    IF href.kind = "relative" THEN st
    ELSE IF href.kind = "bad" THEN [st EXCEPT !.inPage = FALSE, !.q = @ + 1]
    ELSE LET host == netloc(href)
             root_cand == normalize_root(href)
             h == netloc(root_cand)
         IN IF host = NoHost \/ host = SelfHost THEN st
            ELSE IF h \in st.seen_hosts THEN st
            ELSE [st EXCEPT !.candidates = Append(@, root_cand),
                            !.seen_hosts = @ \cup {h}]

\* The body of "for a in soup.find_all('a', href=True)" on the state
\* [candidates, seen_hosts, inPage, q, limit]: leaving the page (a break,
\* or an exception caught by "except Exception: continue") moves on to the
\* next query.
HarvestIter(st, href) ==
    IF href.kind = "relative" THEN st
    ELSE IF href.kind = "bad" THEN [st EXCEPT !.inPage = FALSE, !.q = @ + 1]
    ELSE LET host == netloc(href)
             root_cand == normalize_root(href)
             h == netloc(root_cand)
         IN IF host = NoHost \/ host = SelfHost THEN st
            ELSE IF h \in st.seen_hosts THEN st
            ELSE LET cands == Append(st.candidates, root_cand) IN
                 IF Len(cands) >= st.limit * 4
                 THEN [st EXCEPT !.candidates = cands, !.seen_hosts = @ \cup {h},
                                 !.inPage = FALSE, !.q = @ + 1]
                 ELSE [st EXCEPT !.candidates = cands, !.seen_hosts = @ \cup {h}]

\* The state find_competitor_candidates starts in.  named: the number of
\* foreign hosts the results have named; selfLinks: the number of anchors
\* read that link to the brand's own host.
CompStart(limit, brandKnown) ==
    [pc |-> "harvest", limit |-> limit, queries |-> NumQueries(brandKnown),
     q |-> 1, inPage |-> FALSE, pos |-> 0, named |-> 0, selfLinks |-> 0,
     candidates |-> <<>>, seen_hosts |-> {}, ci |-> 1, filtered |-> <<>>, ret |-> <<>>]

InitComp ==
    /\ \E limit \in MinLimit..MaxLimit, brandKnown \in BOOLEAN :
         comp = CompStart(limit, brandKnown)
    /\ links = Idle /\ faq = Idle /\ hero = Idle /\ cat = Idle /\ brand = Idle /\ req = Idle

\* client.get of a query's results page: a failure or a non-200 status
\* skips the query.
CompSearch ==
    /\ comp.pc = "harvest"
    /\ ~comp.inPage
    /\ comp.q <= comp.queries
    /\ \E r \in PageResponses :
         comp' = IF Retrievable(r) THEN [comp EXCEPT !.inPage = TRUE, !.pos = 0]
                 ELSE [comp EXCEPT !.q = @ + 1]
    /\ UNCHANGED <<links, faq, hero, cat, brand, req>>

CompAnchor ==
    /\ comp.pc = "harvest"
    /\ comp.inPage
    /\ comp.pos < MaxResultAnchors
    /\ \E href \in ResultHrefs :
         /\ href.host <= comp.named + 1
         /\ comp' = [HarvestIter(comp, href) EXCEPT
                       !.pos = @ + 1,
                       !.named = IF href.host > @ THEN href.host ELSE @,
                       !.selfLinks = IF href.kind = "absolute" /\ href.host = SelfHost
                                     THEN 1 ELSE @]
    /\ UNCHANGED <<links, faq, hero, cat, brand, req>>

\* The results page has no more anchors.
CompPageEnd ==
    /\ comp.pc = "harvest"
    /\ comp.inPage
    /\ comp' = [comp EXCEPT !.inPage = FALSE, !.q = @ + 1]
    /\ UNCHANGED <<links, faq, hero, cat, brand, req>>

\* The queries are exhausted: go on to the filter loop.
CompHarvested ==
    /\ comp.pc = "harvest"
    /\ ~comp.inPage
    /\ comp.q > comp.queries
    /\ comp' = [comp EXCEPT !.pc = "filter"]
    /\ UNCHANGED <<links, faq, hero, cat, brand, req>>

\* One pass of "for cand in candidates" below the limit.
CompProbe ==
    /\ comp.pc = "filter"
    /\ comp.ci <= Len(comp.candidates)
    /\ Len(comp.filtered) < comp.limit
    /\ \E r \in ProbeResponses :
         comp' = [comp EXCEPT
                    !.ci = @ + 1,
                    !.filtered = IF looks_like_shopify(r)
                                 THEN Append(@, comp.candidates[comp.ci]) ELSE @]
    /\ UNCHANGED <<links, faq, hero, cat, brand, req>>

\* The loop ended or broke at the limit: return filtered[:limit].
CompReturn ==
    /\ comp.pc = "filter"
    /\ comp.ci > Len(comp.candidates) \/ Len(comp.filtered) >= comp.limit
    /\ comp' = [comp EXCEPT
                  !.pc = "done",
                  !.ret = SubSeq(comp.filtered, 1,
                                 IF Len(comp.filtered) < comp.limit
                                 THEN Len(comp.filtered) ELSE comp.limit)]
    /\ UNCHANGED <<links, faq, hero, cat, brand, req>>

NextComp ==
    CompSearch \/ CompAnchor \/ CompPageEnd \/ CompHarvested \/ CompProbe \/ CompReturn

SpecComp == InitComp /\ [][NextComp]_vars

C10_AtMostFourTimesLimit ==
    Len(comp.candidates) <= 4 * comp.limit

\* C10 as amended: within one results page harvesting stops as soon as the
\* list holds 4 x limit entries, and each later query adds at most one
\* further candidate: during query q the list holds at most
\* 4 x limit + (q - 1) entries, at most 4 x limit + (queries - 1) in the end.
C10_AtMostOneExtraPerLaterQuery ==
    LET q == IF comp.q > comp.queries THEN comp.queries ELSE comp.q
    IN Len(comp.candidates) <= 4 * comp.limit + (q - 1)

\* Three queries each added a candidate at or past the bound.
C10_Witness ==
    /\ comp.pc = "done"
    /\ comp.queries = 3
    /\ Len(comp.candidates) = 4 * comp.limit + 2

(***************************************************************************)
(* get_brand_context and the route handlers /insights and /competitors     *)
(***************************************************************************)

\* The longest anchor list of a home page of the handlers' model.
MaxHomeAnchors == 2

\* scrape_hero_products: the loop over the anchors the selector matches.
RECURSIVE HeroLoop(_, _)
HeroLoop(st, anchors) ==
    IF anchors = <<>> THEN st
    ELSE IF st.pc = "done" THEN st
    ELSE HeroLoop(HeroIter(st, Head(anchors)), Tail(anchors))

scrape_hero_products(soup) ==
    IF soup = None \/ soup = EmptyDoc THEN <<>>
    ELSE HeroLoop([pc |-> "loop", out |-> <<>>, seen |-> {}],
                  SelectSeq(soup.anchors, LAMBDA a : a.href.product # 0)).out

\* The home pages of the handlers' model: a title or none, and a few
\* anchors.
HomeAnchors ==
    { [href |-> [product |-> 1, form |-> "rel"], title |-> "T", text |-> "", alt |-> ""],
      [href |-> [product |-> 1, form |-> "abs"], title |-> "",  text |-> "", alt |-> ""],
      [href |-> [product |-> 0, form |-> "abs"], title |-> "T", text |-> "", alt |-> ""] }

HomeDocs ==
    [kind : {"page"}, hasTitle : {TRUE}, title : {<<"a">>, <<"|">>},
     hasOg : {FALSE}, og : {<<>>}, anchors : SeqUpTo(HomeAnchors, MaxHomeAnchors)]
    \cup [kind : {"page"}, hasTitle : {FALSE}, title : {<<>>},
          hasOg : {FALSE}, og : {<<>>}, anchors : SeqUpTo(HomeAnchors, MaxHomeAnchors)]

HomeResponses ==
    {ReqError, Resp(404, None), Resp(200, Garbage)} \cup {Resp(200, d) : d \in HomeDocs}

\* The feed pages of the handlers' model: at most one item a page, its
\* price a decimal string or a JSON object.
HomeFeedResponses ==
    {ReqError, Resp(404, None)}
    \cup {Resp(200, b) : b \in {x \in FeedBodies :
              /\ Len(x.products) <= 1
              /\ \A j \in 1..Len(x.products) :
                    x.products[j].price.kind = "object" \/ x.products[j].price.text = "19.99"}}

\* The FAQ pages of the handlers' model: no <details>, or one.
HomeFaqResponses ==
    {ReqError, Resp(404, None), Resp(200, Garbage)}
    \cup {Resp(200, d) : d \in {x \in FaqDocs : x.ld = <<>>}}

PolicyPaths == <<
    [type |-> "privacy",  path |-> "/policies/privacy-policy"],
    [type |-> "refund",   path |-> "/policies/refund-policy"],
    [type |-> "shipping", path |-> "/policies/shipping-policy"],
    [type |-> "terms",    path |-> "/policies/terms-of-service"] >>

ContactPaths == <<"/pages/contact", "/pages/contact-us", "/contact">>

AboutPaths == <<"/pages/about", "/pages/our-story", "/pages/about-us">>

\* Python's truth value of an Optional[str]: None and "" are false.
Truthy(x) == x # None /\ x # Str(<<>>)

\* The fields of the BrandContext under construction.  Of the FAQ list,
\* the contact page and the about text, which no handler reads, the model
\* keeps whether they are present; the social links, read off the home
\* page without a fetch, are left out.
EmptyCtx ==
    [brand_name |-> None, hero_products |-> <<>>, catalog |-> <<>>, policies |-> <<>>,
     faqs |-> FALSE, contact_page |-> FALSE, about_text |-> FALSE,
     important_links |-> [k \in LinkKeys |-> None]]

\* What the model keeps of the brand's context once a handler has tested
\* it: the fields the handlers read.
CtxSummary(ctx) ==
    [brand_name |-> ctx.brand_name, hero_products |-> ctx.hero_products,
     catalog |-> ctx.catalog]

\* sub: the state of the scraper that is running.  homeServed, served: the
\* site served the home page, and the policy types it served.
ReqStart(route) ==
    [pc |-> "home", route |-> route, outcome |-> 0, sub |-> Idle,
     ctx |-> EmptyCtx, homeServed |-> FALSE, served |-> {}, built |-> 0,
     competitors |-> 0]

InitReq ==
    /\ \E route \in {"insights", "competitors"} : req = ReqStart(route)
    /\ links = Idle /\ faq = Idle /\ hero = Idle /\ cat = Idle /\ brand = Idle /\ comp = Idle

\* except Exception as e: raise HTTPException(status_code=500, ...)
InternalError(st) == [st EXCEPT !.pc = "done", !.outcome = 500]

\* get_brand_context: the home page, the brand name and the hero products.
ReqHome ==
    /\ req.pc = "home"
    /\ \E r \in HomeResponses :
         LET f == fetch_html(r) IN
         req' = IF f.raised # "none" THEN InternalError(req)
                ELSE [req EXCEPT
                        !.pc = "catalog",
                        !.homeServed = Retrievable(r),
                        !.ctx.brand_name = scrape_brand_name(f.value),
                        !.ctx.hero_products = scrape_hero_products(f.value),
                        !.sub = [pc |-> "loop", page |-> 1, products |-> <<>>]]
    /\ UNCHANGED <<links, faq, hero, cat, brand, comp>>

\* scrape_catalog, one page a step.
ReqCatalog ==
    /\ req.pc = "catalog"
    /\ req.sub.page <= MaxPages
    /\ \E r \in HomeFeedResponses :
         LET st == CatalogIter(req.sub, r) IN
         req' = IF st.pc = "done"
                THEN [req EXCEPT !.pc = "policies", !.ctx.catalog = st.products,
                                           !.sub = [i |-> 1]]
                ELSE [req EXCEPT !.sub = st]
    /\ UNCHANGED <<links, faq, hero, cat, brand, comp>>

\* scrape_policies, one path a step.
ReqPolicy ==
    /\ req.pc = "policies"
    /\ \E r \in PageResponses :
         LET f == fetch_html(r)
             p == PolicyPaths[req.sub.i]
             last == req.sub.i = Len(PolicyPaths)
         IN
         req' = IF f.raised # "none" THEN InternalError(req)
                ELSE [req EXCEPT
                        !.ctx.policies = IF f.value # None THEN Append(@, p.type) ELSE @,
                        !.served = IF Retrievable(r) THEN @ \cup {p.type} ELSE @,
                        !.pc = IF last THEN "faqs" ELSE @,
                        !.sub = IF last THEN [pc |-> "loop", i |-> 1, ret |-> <<>>]
                                ELSE [i |-> req.sub.i + 1]]
    /\ UNCHANGED <<links, faq, hero, cat, brand, comp>>

\* scrape_faqs, one path a step.
ReqFaq ==
    /\ req.pc = "faqs"
    /\ \E r \in HomeFaqResponses :
         LET f == fetch_html(r)
             st == FaqIter(req.sub, f.value)
         IN
         req' = IF f.raised # "none" THEN InternalError(req)
                ELSE IF st.pc = "done" \/ st.i > Len(FaqPaths)
                THEN [req EXCEPT !.pc = "contact", !.ctx.faqs = st.ret # <<>>,
                                           !.sub = [i |-> 1]]
                ELSE [req EXCEPT !.sub = st]
    /\ UNCHANGED <<links, faq, hero, cat, brand, comp>>

\* scrape_contact, one path a step: the first retrievable page ends it.
ReqContact ==
    /\ req.pc = "contact"
    /\ \E r \in PageResponses :
         LET f == fetch_html(r)
             last == req.sub.i = Len(ContactPaths)
         IN
         req' = IF f.raised # "none" THEN InternalError(req)
                ELSE IF f.value # None
                THEN [req EXCEPT
                        !.pc = "about", !.sub = [i |-> 1], !.ctx.contact_page = TRUE]
                ELSE IF last THEN [req EXCEPT !.pc = "about", !.sub = [i |-> 1]]
                ELSE [req EXCEPT !.sub = [i |-> req.sub.i + 1]]
    /\ UNCHANGED <<links, faq, hero, cat, brand, comp>>

\* scrape_about, one path a step: the first retrievable page ends it.
ReqAbout ==
    /\ req.pc = "about"
    /\ \E r \in PageResponses :
         LET f == fetch_html(r)
             last == req.sub.i = Len(AboutPaths)
         IN
         req' = IF f.raised # "none" THEN InternalError(req)
                ELSE IF f.value # None
                THEN [req EXCEPT
                        !.pc = "links", !.sub = [i |-> 1], !.ctx.about_text = TRUE]
                ELSE IF last THEN [req EXCEPT !.pc = "links", !.sub = [i |-> 1]]
                ELSE [req EXCEPT !.sub = [i |-> req.sub.i + 1]]
    /\ UNCHANGED <<links, faq, hero, cat, brand, comp>>

\* scrape_important_links, one pair a step; after the last one the context
\* is built.
ReqLinks ==
    /\ req.pc = "links"
    /\ \E r \in PageResponses :
         LET f == fetch_html(r)
             last == req.sub.i = Len(LinkPairs)
         IN
         req' = IF f.raised # "none" THEN InternalError(req)
                ELSE [req EXCEPT
                        !.ctx.important_links = LinkIter(@, LinkPairs[req.sub.i], f.value),
                        !.pc = IF last THEN "check" ELSE @,
                        !.sub = IF last THEN Idle ELSE [i |-> req.sub.i + 1]]
    /\ UNCHANGED <<links, faq, hero, cat, brand, comp>>

\* The handlers' test with "or" for "and".
NotAStorefrontEither(ctx) == ctx.catalog = <<>> \/ ctx.hero_products = <<>>

\* if not ctx.catalog and not ctx.hero_products: raise HTTPException(401)
NotAStorefront(ctx) == ctx.catalog = <<>> /\ ctx.hero_products = <<>>

\* The handlers' test of the brand's context: 401, the context returned
\* (/insights), or on to the competitor search with the request's limit
\* (/competitors).
ReqCheck ==
    /\ req.pc = "check"
    /\ IF NotAStorefront(req.ctx)
       THEN /\ req' = [req EXCEPT !.pc = "done", !.outcome = 401,
                                  !.ctx = CtxSummary(req.ctx), !.served = {}]
            /\ comp' = comp
       ELSE IF req.route = "insights"
       THEN /\ req' = [req EXCEPT !.pc = "done", !.outcome = 200,
                                  !.ctx = CtxSummary(req.ctx), !.served = {}]
            /\ comp' = comp
       ELSE /\ req' = [req EXCEPT !.pc = "discover", !.ctx = CtxSummary(req.ctx), !.served = {}]
            /\ \E limit \in MinLimit..MaxLimit :
                 comp' = CompStart(limit, Truthy(req.ctx.brand_name))
    /\ UNCHANGED <<links, faq, hero, cat, brand>>

\* What get_brand_context gives for a competitor: a context with products,
\* one without, or an exception (caught: "ignore individual failures").
CompetitorBuilds == {"profile", "empty", "raised"}

\* /competitors: one pass of "for cu in competitor_urls".
ReqCompetitor ==
    /\ req.pc = "discover"
    /\ comp.pc = "done"
    /\ req.built < Len(comp.ret)
    /\ \E b \in CompetitorBuilds :
         req' = [req EXCEPT !.built = @ + 1,
                            !.competitors = IF b = "profile" THEN @ + 1 ELSE @]
    /\ UNCHANGED <<links, faq, hero, cat, brand, comp>>

\* /competitors: return CompetitorResult(brand, competitors).
ReqCompetitorsReturn ==
    /\ req.pc = "discover"
    /\ comp.pc = "done"
    /\ req.built = Len(comp.ret)
    /\ req' = [req EXCEPT !.pc = "done", !.outcome = 200]
    /\ UNCHANGED <<links, faq, hero, cat, brand, comp>>

NextReq ==
    \/ ReqHome \/ ReqCatalog \/ ReqPolicy \/ ReqFaq \/ ReqContact \/ ReqAbout
    \/ ReqLinks \/ ReqCheck \/ ReqCompetitor \/ ReqCompetitorsReturn
    \/ CompSearch \/ CompAnchor \/ CompPageEnd \/ CompHarvested \/ CompProbe
    \/ CompReturn

SpecReq == InitReq /\ [][NextReq]_vars

\* C2: whatever the site answers to each fetch, no fetch raises into the
\* handler: the request never ends in the 500 outcome; it ends with the
\* profile (200) or with the not-a-storefront rejection (401), and a page
\* the site did not serve leaves its fields missing.
C2_FetchFailuresDegrade ==
    /\ req.outcome # 500
    /\ req.pc = "done" => req.outcome \in {200, 401}
    /\ req.pc \notin {"home", "done", "discover"} /\ req.outcome = 0 =>
         /\ ~req.homeServed => req.ctx.brand_name = None /\ req.ctx.hero_products = <<>>
         /\ \A j \in 1..Len(req.ctx.policies) : req.ctx.policies[j] \in req.served
         /\ Len(req.ctx.policies) = Cardinality(req.served)

\* A profile was returned although fetches failed.
C2_Witness ==
    /\ req.pc = "done"
    /\ req.route = "insights"
    /\ req.outcome = 200
    /\ ~req.homeServed
    /\ req.ctx.brand_name = None

\* C6: a handler rejects the brand's profile with the client error 401
\* exactly when its catalog and its hero-product list are both empty; with
\* a hero product or a catalog item the request ends in 200.
C6_RejectIffBothEmpty ==
    LET bothEmpty == req.ctx.catalog = <<>> /\ req.ctx.hero_products = <<>>
    IN /\ req.outcome = 401 <=> req.pc \in {"done", "discover"} /\ bothEmpty
       /\ req.pc = "done" /\ ~bothEmpty => req.outcome = 200
       /\ req.pc = "discover" => ~bothEmpty
       /\ req.outcome = 401 => req.pc = "done"

\* /competitors returned the result for a brand with a hero product and an
\* empty catalog.
C6_Witness ==
    /\ req.pc = "done"
    /\ req.route = "competitors"
    /\ req.outcome = 200
    /\ req.ctx.catalog = <<>>
    /\ req.ctx.hero_products # <<>>

==========================================================================
